---- MODULE Spec2Model ----
(***************************************************************************)
(* Grid Coder (src/main.js): a 5x5 grid puzzle.  The player queues         *)
(* commands, Run expands the queue into steps and an interval timer        *)
(* performs one step per tick against the grid.                            *)
(*                                                                         *)
(* src/main.js holds two versions of the script.  Lines 1-522 are the      *)
(* earlier one (one IFBLUE command, random wall placement), lines 526-1177 *)
(* the later one (IFBLUE_R / IFBLUE_L, path-first map generator).  The     *)
(* variable `variant` says which of the two is loaded; it never changes.   *)
(* Definitions without a suffix model the later version, definitions       *)
(* ending in Early the earlier one; code that is the same in both is       *)
(* modelled once.                                                          *)
(*                                                                         *)
(* The view (DOM rendering, animation, queue highlight) is not modelled,   *)
(* except for the two overlays, the status text and the disabled flag of   *)
(* the command inputs.                                                     *)
(***************************************************************************)
EXTENDS Integers, Sequences, FiniteSets, TLC

VARIABLES
    variant,        \* "early" | "later": which version of the script runs
    grid,           \* grid[y][x] \in CellKinds                  (line 553)
    startPos,       \* [x, y]                                    (line 554)
    goalPos,        \* [x, y]                                    (line 555)
    agentState,     \* [x, y, dir]                               (line 556)
    commandQueue,   \* sequence of commands                      (line 562)
    isRunning,      \* BOOLEAN                                   (line 563)
    runs,           \* the live closures of startExecution: one record
                    \* [steps, stepIndex, timer] per interval timer that is
                    \* not yet cleared ("interval") or per pending delayed
                    \* end check ("timeout")                (lines 968-998)
    overlaySuccess, \* TRUE when #overlay-success is shown     (line 1139)
    overlayFail,    \* TRUE when #overlay-fail is shown        (line 1144)
    statusText,     \* the last updateStatus message (a tag)   (line 1150)
    inputsDisabled, \* the disabled flag set by disableCommandInputs
    solutionPath,   \* generateRandomMap's local solutionPath  (line 685)
    attempts,       \* generateRandomMap's local attempts      (line 668)
    wallAttempts,   \* generateRandomMap's local wallAttempts  (line 710)
    gen             \* where a call of generateRandomMap stands and its
                    \* other locals: [pc, goal, wall, wallCount,
                    \* placedWalls]; pc is "done" outside a call

vars == <<variant, grid, startPos, goalPos, agentState, commandQueue,
          isRunning, runs, overlaySuccess, overlayFail, statusText,
          inputsDisabled, solutionPath, attempts, wallAttempts, gen>>

mapVars == <<grid, startPos, goalPos, solutionPath, attempts, wallAttempts,
             gen>>
viewVars == <<overlaySuccess, overlayFail, statusText, inputsDisabled>>

(***************************************************************************)
(* Program constants                                                       *)
(***************************************************************************)
GRID_SIZE == 5
MaxGoalAttempts == 50
MaxWallAttempts == 100
MinGoalDistance == 6

\* DIRS[dir + 1]: 0 = up, 1 = right, 2 = down, 3 = left
DIRS == << [dx |-> 0, dy |-> -1], [dx |-> 1, dy |-> 0],
           [dx |-> 0, dy |-> 1],  [dx |-> -1, dy |-> 0] >>

Coords == 0 .. (GRID_SIZE - 1)
Cells == [x : Coords, y : Coords]
CellKinds == {"empty", "wall", "blue", "goal"}

\* The data-cmd values of the command buttons of each version.
Commands == {"F", "L", "R", "LOOP2", "IFBLUE_R", "IFBLUE_L"}
CommandsEarly == {"F", "L", "R", "LOOP2", "IFBLUE"}

Abs(n) == IF n < 0 THEN -n ELSE n
Min(a, b) == IF a < b THEN a ELSE b

(***************************************************************************)
(* Command expander                                                        *)
(***************************************************************************)
Step(i, a) == [fromIndex |-> i, action |-> a]

\* Mutant: LOOP2 pushes its follower once.
ExpandOneRepeatOnce(q, i) ==
    LET cmd == q[i + 1]
        hasNext == i + 1 < Len(q)
    IN  IF cmd = "LOOP2"
        THEN IF ~hasNext
             THEN << [fromIndex |-> i, action |-> "NOOP"] >>
             ELSE << [fromIndex |-> i, action |-> q[i + 2]] >>
        ELSE << [fromIndex |-> i, action |-> cmd] >>

\* Mutant: LOOP2 does not test for a follower and pushes the missing one.
ExpandOneNoFollowerTest(q, i) ==
    LET cmd == q[i + 1]
        next == IF i + 1 < Len(q) THEN q[i + 2] ELSE "undefined"
    IN  IF cmd = "LOOP2"
        THEN << [fromIndex |-> i, action |-> next],
                [fromIndex |-> i, action |-> next] >>
        ELSE << [fromIndex |-> i, action |-> cmd] >>

\* The steps pushed for index i (0-based) of queue q.  `next` is
\* commandQueue[i + 1], undefined (falsy) past the end of the queue.
ExpandOne(q, i) ==
    LET cmd == q[i + 1]
        hasNext == i + 1 < Len(q)
    IN  IF cmd = "LOOP2"
        THEN IF ~hasNext
             THEN << Step(i, "NOOP") >>
             ELSE << Step(i, q[i + 2]), Step(i, q[i + 2]) >>
        ELSE IF cmd = "IFBLUE_R" THEN << Step(i, "IFBLUE_R") >>
        ELSE IF cmd = "IFBLUE_L" THEN << Step(i, "IFBLUE_L") >>
        ELSE << Step(i, cmd) >>

RECURSIVE ExpandFrom(_, _)
ExpandFrom(q, i) ==
    IF i >= Len(q) THEN << >> ELSE ExpandOne(q, i) \o ExpandFrom(q, i + 1)

expandCommandsForExecution(q) == ExpandFrom(q, 0)

\* Earlier version: IFBLUE looks ahead and carries the next command.
ExpandOneEarly(q, i) ==
    LET cmd == q[i + 1]
        hasNext == i + 1 < Len(q)
    IN  IF cmd = "LOOP2"
        THEN IF ~hasNext
             THEN << Step(i, "NOOP") >>
             ELSE << Step(i, q[i + 2]), Step(i, q[i + 2]) >>
        ELSE IF cmd = "IFBLUE"
        THEN IF ~hasNext
             THEN << Step(i, "NOOP_COND") >>
             ELSE << [fromIndex |-> i, action |-> "IFBLUE",
                      nextAction |-> q[i + 2]] >>
        ELSE << Step(i, cmd) >>

RECURSIVE ExpandFromEarly(_, _)
ExpandFromEarly(q, i) ==
    IF i >= Len(q) THEN << >>
    ELSE ExpandOneEarly(q, i) \o ExpandFromEarly(q, i + 1)

expandCommandsForExecutionEarly(q) == ExpandFromEarly(q, 0)

(***************************************************************************)
(* performStep.  The result is [agent, ret, overlay, status]: the agent    *)
(* state after the step, the returned continue flag, the overlay shown     *)
(* ("success", "fail" or "same") and the status set ("same" when none).    *)
(***************************************************************************)
Keep(agent) ==
    [agent |-> agent, ret |-> TRUE, overlay |-> "same", status |-> "same"]

Turn(agent, k) ==
    [agent |-> [agent EXCEPT !.dir = (agent.dir + k) % 4],
     ret |-> TRUE, overlay |-> "same", status |-> "same"]

InBounds(nx, ny) == ~(nx < 0 \/ nx >= GRID_SIZE \/ ny < 0 \/ ny >= GRID_SIZE)

\* Mutant: Forward moves the agent before the wall test.
ForwardMovesFirst(agent, g) ==
    LET dirInfo == DIRS[agent.dir + 1]
        nextX == agent.x + dirInfo.dx
        nextY == agent.y + dirInfo.dy
    IN  IF ~InBounds(nextX, nextY)
        THEN [agent |-> agent, ret |-> FALSE, overlay |-> "fail",
              status |-> "outOfBounds"]
        ELSE LET cellType == g[nextY][nextX]
                 moved == [agent EXCEPT !.x = nextX, !.y = nextY]
             IN  IF cellType = "wall"
                 THEN [agent |-> moved, ret |-> FALSE, overlay |-> "fail",
                       status |-> "hitWall"]
                 ELSE IF cellType = "goal"
                 THEN [agent |-> moved, ret |-> FALSE, overlay |-> "success",
                       status |-> "reachedGoal"]
                 ELSE [agent |-> moved, ret |-> TRUE, overlay |-> "same",
                       status |-> "same"]

\* Mutant: Forward without the wall test.
ForwardThroughWalls(agent, g) ==
    LET dirInfo == DIRS[agent.dir + 1]
        nextX == agent.x + dirInfo.dx
        nextY == agent.y + dirInfo.dy
    IN  IF ~InBounds(nextX, nextY)
        THEN [agent |-> agent, ret |-> FALSE, overlay |-> "fail",
              status |-> "outOfBounds"]
        ELSE IF g[nextY][nextX] = "goal"
        THEN [agent |-> [agent EXCEPT !.x = nextX, !.y = nextY],
              ret |-> FALSE, overlay |-> "success", status |-> "reachedGoal"]
        ELSE [agent |-> [agent EXCEPT !.x = nextX, !.y = nextY],
              ret |-> TRUE, overlay |-> "same", status |-> "same"]

Forward(agent, g) ==
    LET dirInfo == DIRS[agent.dir + 1]
        nextX == agent.x + dirInfo.dx
        nextY == agent.y + dirInfo.dy
    IN  IF ~InBounds(nextX, nextY)
        THEN [agent |-> agent, ret |-> FALSE, overlay |-> "fail",
              status |-> "outOfBounds"]
        ELSE LET cellType == g[nextY][nextX]
                 moved == [agent EXCEPT !.x = nextX, !.y = nextY]
             IN  IF cellType = "wall"
                 THEN [agent |-> agent, ret |-> FALSE, overlay |-> "fail",
                       status |-> "hitWall"]
                 ELSE IF cellType = "goal"
                 THEN [agent |-> moved, ret |-> FALSE, overlay |-> "success",
                       status |-> "reachedGoal"]
                 ELSE [agent |-> moved, ret |-> TRUE, overlay |-> "same",
                       status |-> "same"]

\* Mutant: the conditional turn never turns.
IfBlueTurnNever(agent, g, k) == Keep(agent)

\* Mutant: the conditional turn without the test of the cell.
IfBlueTurnAlways(agent, g, k) == Turn(agent, k)

IfBlueTurn(agent, g, k) ==
    IF g[agent.y][agent.x] = "blue" THEN Turn(agent, k) ELSE Keep(agent)

performStep(step, agent, g) ==
    LET type == step.action
    IN  IF type = "NOOP" \/ type = "NOOP_COND" THEN Keep(agent)
        ELSE IF type = "IFBLUE_R" THEN IfBlueTurn(agent, g, 1)
        ELSE IF type = "IFBLUE_L" THEN IfBlueTurn(agent, g, 3)
        ELSE IF type = "L" THEN Turn(agent, 3)
        ELSE IF type = "R" THEN Turn(agent, 1)
        ELSE IF type = "F" THEN Forward(agent, g)
        ELSE Keep(agent)

\* step.nextAction: a step that LOOP2 emitted for a following IFBLUE has no
\* such property, and reading it gives undefined.
NextActionOf(step) ==
    IF "nextAction" \in DOMAIN step THEN step.nextAction ELSE "undefined"

\* Earlier version: IFBLUE on a blue cell performs nextAction through a
\* recursive call of performStep, otherwise it is skipped.
RECURSIVE performStepEarly(_, _, _)
performStepEarly(step, agent, g) ==
    LET type == step.action
    IN  IF type = "NOOP" \/ type = "NOOP_COND" THEN Keep(agent)
        ELSE IF type = "IFBLUE"
        THEN IF g[agent.y][agent.x] = "blue"
             THEN performStepEarly(Step(step.fromIndex, NextActionOf(step)),
                                   agent, g)
             ELSE Keep(agent)
        ELSE IF type = "L" THEN Turn(agent, 3)
        ELSE IF type = "R" THEN Turn(agent, 1)
        ELSE IF type = "F" THEN Forward(agent, g)
        ELSE Keep(agent)

(***************************************************************************)
(* Random draws.  Math.random is an input: a loop that draws a cell per    *)
(* pass reads a stream of cells.  The model checks the streams             *)
(* [start, stride], whose k-th draw is cell number                         *)
(* (start + (k - 1) * stride) mod 25 in row-major order: stride 0 repeats  *)
(* one cell for ever (a loop whose every draw is rejected), stride 1       *)
(* sweeps the whole grid.                                                  *)
(***************************************************************************)
NumCells == GRID_SIZE * GRID_SIZE
CellAt(n) == [x |-> n % GRID_SIZE, y |-> n \div GRID_SIZE]
CellIndex(c) == c.y * GRID_SIZE + c.x
Draw(stream, k) == CellAt((stream.start + (k - 1) * stream.stride) % NumCells)
Streams(starts, maxStride) == [start : starts, stride : 0 .. maxStride]

Manhattan(a, b) == Abs(a.x - b.x) + Abs(a.y - b.y)

(***************************************************************************)
(* Path-first map generator (later version)                                *)
(***************************************************************************)
\* Mutant: the do-while without its break.
GoalPassNoBreak(s, stream, start) ==
    IF s.done THEN s
    ELSE LET goal == Draw(stream, s.attempts + 1)
             n == s.attempts + 1
         IN  [goalPos |-> goal, attempts |-> n,
              done |-> ~( (goal.x = start.x /\ goal.y = start.y)
                          \/ Manhattan(goal, start) < MinGoalDistance )]

\* Mutant: the loop's test without the distance.
GoalPassNoDistanceTest(s, stream, start) ==
    IF s.done THEN s
    ELSE LET goal == Draw(stream, s.attempts + 1)
             n == s.attempts + 1
         IN  [goalPos |-> goal, attempts |-> n,
              done |-> \/ n > MaxGoalAttempts
                       \/ ~(goal.x = start.x /\ goal.y = start.y)]

\* One pass of the do-while of lines 669-680 on the loop state s,
\* [goalPos, attempts, done]: done says that the loop has been left, by the
\* break of line 676 or by its test, and a loop that has been left stays.
GoalPass(s, stream, start) ==
    IF s.done THEN s
    ELSE LET goal == Draw(stream, s.attempts + 1)
             n == s.attempts + 1
         IN  [goalPos |-> goal, attempts |-> n,
              done |-> \/ n > MaxGoalAttempts
                       \/ ~( (goal.x = start.x /\ goal.y = start.y)
                             \/ Manhattan(goal, start) < MinGoalDistance )]

\* n passes of the do-while: the second half of the passes on the state mid
\* that the first half leaves.
RECURSIVE GoalPasses(_, _, _, _)
GoalPasses(s, n, stream, start) ==
    IF n = 0 THEN s
    ELSE IF n = 1 THEN GoalPass(s, stream, start)
    ELSE CHOOSE r \in { GoalPasses(mid, n - (n \div 2), stream, start) :
                          mid \in { GoalPasses(s, n \div 2, stream, start) } } :
            TRUE

\* The do-while of lines 668-680: it is left after MaxGoalAttempts + 1
\* passes at the latest.  goalPos is (4, 4) before the first pass (line 555).
SampleGoal(stream, start) ==
    LET s == GoalPasses([goalPos |-> [x |-> 4, y |-> 4], attempts |-> 0,
                         done |-> FALSE],
                        MaxGoalAttempts + 1, stream, start)
    IN  [goalPos |-> s.goalPos, attempts |-> s.attempts]

\* The way points of lines 733-763.
Waypoints(start, goal, useHorizontalFirst) ==
    LET first == << [x |-> start.x, y |-> start.y] >>
        bent ==
            IF useHorizontalFirst
            THEN LET midX == goal.x
                     midY == start.y
                 IN  first
                     \o (IF midX # start.x
                         THEN << [x |-> midX, y |-> midY] >> ELSE << >>)
                     \o (IF midY # goal.y
                         THEN << [x |-> goal.x, y |-> goal.y] >> ELSE << >>)
            ELSE LET midX == start.x
                     midY == goal.y
                 IN  first
                     \o (IF midY # start.y
                         THEN << [x |-> midX, y |-> midY] >> ELSE << >>)
                     \o (IF midX # goal.x
                         THEN << [x |-> goal.x, y |-> goal.y] >> ELSE << >>)
        last == bent[Len(bent)]
    IN  IF last.x # goal.x \/ last.y # goal.y
        THEN Append(bent, [x |-> goal.x, y |-> goal.y])
        ELSE bent

\* One pass of the loop of lines 767-788: `from`, then the cells strictly
\* between `from` and `to`.  Consecutive way points always differ.
Segment(from, to) ==
    << [x |-> from.x, y |-> from.y] >> \o
    (IF from.x = to.x
     THEN LET step == IF from.y < to.y THEN 1 ELSE -1
          IN  [k \in 1 .. (Abs(to.y - from.y) - 1) |->
                  [x |-> from.x, y |-> from.y + step * k]]
     ELSE IF from.y = to.y
     THEN LET step == IF from.x < to.x THEN 1 ELSE -1
          IN  [k \in 1 .. (Abs(to.x - from.x) - 1) |->
                  [x |-> from.x + step * k, y |-> from.y]]
     ELSE << >>)

RECURSIVE ExpandPath(_, _)
ExpandPath(path, i) ==
    IF i >= Len(path) THEN << >>
    ELSE Segment(path[i], path[i + 1]) \o ExpandPath(path, i + 1)

generateSolutionPath(start, goal, useHorizontalFirst) ==
    ExpandPath(Waypoints(start, goal, useHorizontalFirst), 1)
    \o << [x |-> goal.x, y |-> goal.y] >>

\* Mutant: a cell is a corner when either of its two moves has a part.
IsCornerEitherMove(prev, curr, next) ==
    LET dx1 == curr.x - prev.x
        dy1 == curr.y - prev.y
        dx2 == next.x - curr.x
        dy2 == next.y - curr.y
    IN  (dx1 # 0 \/ dy2 # 0) \/ (dy1 # 0 \/ dx2 # 0)

IsCorner(prev, curr, next) ==
    LET dx1 == curr.x - prev.x
        dy1 == curr.y - prev.y
        dx2 == next.x - curr.x
        dy2 == next.y - curr.y
    IN  (dx1 # 0 /\ dy2 # 0) \/ (dy1 # 0 /\ dx2 # 0)

\* i is the 1-based position of curr; the loop covers the interior cells.
RECURSIVE CornersFrom(_, _)
CornersFrom(path, i) ==
    IF i >= Len(path) THEN << >>
    ELSE (IF IsCorner(path[i - 1], path[i], path[i + 1])
          THEN << [x |-> path[i].x, y |-> path[i].y] >> ELSE << >>)
         \o CornersFrom(path, i + 1)

findCorners(path) == CornersFrom(path, 2)

\* Fisher-Yates; i is the 0-based index of the loop, r the random draw,
\* read as j = r mod (i + 1).
RECURSIVE ShuffleFrom(_, _, _)
ShuffleFrom(shuffled, i, r) ==
    IF i <= 0 THEN shuffled
    ELSE LET j == r % (i + 1)
         IN  ShuffleFrom([shuffled EXCEPT ![i + 1] = shuffled[j + 1],
                                          ![j + 1] = shuffled[i + 1]],
                         i - 1, r)

shuffleArray(array, r) == ShuffleFrom(array, Len(array) - 1, r)

\* The forEach of lines 699-705.
RECURSIVE PlaceBlue(_, _, _, _, _)
PlaceBlue(g, selected, i, start, goal) ==
    IF i > Len(selected) THEN g
    ELSE LET c == selected[i]
         IN  PlaceBlue(IF ~(c.x = start.x /\ c.y = start.y)
                          /\ ~(c.x = goal.x /\ c.y = goal.y)
                       THEN [g EXCEPT ![c.y][c.x] = "blue"]
                       ELSE g,
                       selected, i + 1, start, goal)

\* The key `${x},${y}` of a cell: the pair of its coordinates.
CellKey(x, y) == << x, y >>

\* Mutant: the test of the cell's kind alone.
WallAllowedEmptyOnly(g, x, y, pathCells, start, goal) == g[y][x] = "empty"

\* Mutant: the test without its path check.
WallAllowedOffPathUnchecked(g, x, y, pathCells, start, goal) ==
    /\ ~(x = start.x /\ y = start.y)
    /\ ~(x = goal.x /\ y = goal.y)
    /\ g[y][x] = "empty"

\* The test of lines 718-723.
WallAllowed(g, x, y, pathCells, start, goal) ==
    /\ CellKey(x, y) \notin pathCells
    /\ ~(x = start.x /\ y = start.y)
    /\ ~(x = goal.x /\ y = goal.y)
    /\ g[y][x] = "empty"

\* Mutant: a placed wall is not counted.
WallPassUncounted(s, wallCount, stream, pathCells, start, goal) ==
    IF ~(s.placedWalls < wallCount /\ s.wallAttempts < MaxWallAttempts)
    THEN s
    ELSE LET c == Draw(stream, s.wallAttempts + 1)
         IN  IF WallAllowed(s.grid, c.x, c.y, pathCells, start, goal)
             THEN [grid |-> [s.grid EXCEPT ![c.y][c.x] = "wall"],
                   placedWalls |-> s.placedWalls,
                   wallAttempts |-> s.wallAttempts + 1]
             ELSE [grid |-> s.grid, placedWalls |-> s.placedWalls,
                   wallAttempts |-> s.wallAttempts + 1]

\* One pass of the while of lines 712-728 on the loop state s,
\* [grid, placedWalls, wallAttempts]; a state that fails the loop's test has
\* left the loop and stays as it is.
WallPass(s, wallCount, stream, pathCells, start, goal) ==
    IF ~(s.placedWalls < wallCount /\ s.wallAttempts < MaxWallAttempts)
    THEN s
    ELSE LET c == Draw(stream, s.wallAttempts + 1)
         IN  IF WallAllowed(s.grid, c.x, c.y, pathCells, start, goal)
             THEN [grid |-> [s.grid EXCEPT ![c.y][c.x] = "wall"],
                   placedWalls |-> s.placedWalls + 1,
                   wallAttempts |-> s.wallAttempts + 1]
             ELSE [grid |-> s.grid, placedWalls |-> s.placedWalls,
                   wallAttempts |-> s.wallAttempts + 1]

\* n passes of the while: the second half of the passes on the state mid
\* that the first half leaves.
RECURSIVE WallPasses(_, _, _, _, _, _, _)
WallPasses(s, n, wallCount, stream, pathCells, start, goal) ==
    IF n = 0 THEN s
    ELSE IF n = 1 THEN WallPass(s, wallCount, stream, pathCells, start, goal)
    ELSE CHOOSE r \in { WallPasses(mid, n - (n \div 2), wallCount, stream,
                                   pathCells, start, goal) :
                          mid \in { WallPasses(s, n \div 2, wallCount, stream,
                                               pathCells, start, goal) } } :
            TRUE

\* The while of lines 709-728: every pass counts in wallAttempts, so the
\* loop is left after MaxWallAttempts passes at the latest.
PlaceWalls(g, wallCount, stream, pathCells, start, goal) ==
    WallPasses([grid |-> g, placedWalls |-> 0, wallAttempts |-> 0],
               MaxWallAttempts, wallCount, stream, pathCells, start, goal)

EmptyGrid == [y \in Coords |-> [x \in Coords |-> "empty"]]

\* Lines 682-705 on grid g: the goal cell, the solution path and the blue
\* cells.  d: the random draws, [horizontal, blue, shuffle].  The path is
\* computed once (line 683) and the rest reads that value.
MarkPath(g, start, goal, d) ==
    CHOOSE marked \in
      { LET withGoal == [g EXCEPT ![goal.y][goal.x] = "goal"]
            corners == findCorners(path)
            blueCount == Min(d.blue, Len(corners))
            selectedCorners ==
                SubSeq(shuffleArray(corners, d.shuffle), 1, blueCount)
        IN  [grid |-> PlaceBlue(withGoal, selectedCorners, 1, start, goal),
             solutionPath |-> path] :
        path \in { generateSolutionPath(start, goal, d.horizontal) } } : TRUE

\* generateRandomMap up to the blue cells (lines 658-705).
\* d: the random draws, [goal, horizontal, blue, shuffle].
PathPhase(d) ==
    LET start == [x |-> 0, y |-> 0]
        sampled == SampleGoal(d.goal, start)
        goal == sampled.goalPos
        marked == MarkPath(EmptyGrid, start, goal, d)
    IN  [grid |-> marked.grid,
         startPos |-> start, goalPos |-> goal,
         solutionPath |-> marked.solutionPath,
         attempts |-> sampled.attempts]

\* The rest of generateRandomMap (lines 687-691 and 707-728) on the result
\* p of PathPhase.  w: the random draws, [walls, wall].
WallPhase(p, w) ==
    LET path == p.solutionPath
        pathCells == { CellKey(path[i].x, path[i].y) : i \in 1 .. Len(path) }
        walled == PlaceWalls(p.grid, w.walls, w.wall, pathCells,
                             p.startPos, p.goalPos)
    IN  [grid |-> walled.grid, startPos |-> p.startPos, goalPos |-> p.goalPos,
         solutionPath |-> path, attempts |-> p.attempts,
         wallAttempts |-> walled.wallAttempts]

PathDraws(goalStreams) ==
    [goal : goalStreams, horizontal : BOOLEAN, blue : 1 .. 2, shuffle : 0 .. 1]

WallDraws(wallStreams) == [walls : 3 .. 5, wall : wallStreams]

\* Every map generateRandomMap returns on draws from the given streams.
generateRandomMap(goalStreams, wallStreams) ==
    { WallPhase(p, w) : p \in { PathPhase(d) : d \in PathDraws(goalStreams) },
                        w \in WallDraws(wallStreams) }

(***************************************************************************)
(* Random map generator of the earlier version (lines 131-183).  Its three *)
(* loops have no attempt bound; they end on the first accepted draws.      *)
(***************************************************************************)
RECURSIVE SampleGoalEarly(_, _, _)
SampleGoalEarly(stream, start, k) ==
    LET goal == Draw(stream, k)
    IN  IF goal.x = start.x /\ goal.y = start.y
        THEN SampleGoalEarly(stream, start, k + 1)
        ELSE goal

\* The test of lines 156-160 and 173-177, negated.
PlaceAllowedEarly(g, x, y, start, goal) ==
    ~( (x = start.x /\ y = start.y)
       \/ (x = goal.x /\ y = goal.y)
       \/ g[y][x] # "empty" )

\* The whiles of lines 153-165 (kind "wall") and 170-182 (kind "blue").
RECURSIVE PlaceEarly(_, _, _, _, _, _, _, _)
PlaceEarly(g, kind, placed, count, stream, k, start, goal) ==
    IF ~(placed < count) THEN g
    ELSE LET c == Draw(stream, k)
         IN  IF PlaceAllowedEarly(g, c.x, c.y, start, goal)
             THEN PlaceEarly([g EXCEPT ![c.y][c.x] = kind], kind, placed + 1,
                             count, stream, k + 1, start, goal)
             ELSE PlaceEarly(g, kind, placed, count, stream, k + 1, start, goal)

\* d: the random draws of one call, [goal, walls, wall, blues, blue].
generateRandomMapEarly(d) ==
    LET start == [x |-> 0, y |-> 0]
        goal == SampleGoalEarly(d.goal, start, 1)
        withGoal == [EmptyGrid EXCEPT ![goal.y][goal.x] = "goal"]
        walled == PlaceEarly(withGoal, "wall", 0, d.walls, d.wall, 1,
                             start, goal)
        withBlue == PlaceEarly(walled, "blue", 0, d.blues, d.blue, 1,
                               start, goal)
    IN  [grid |-> withBlue, startPos |-> start, goalPos |-> goal,
         solutionPath |-> << >>, attempts |-> 0, wallAttempts |-> 0]

RandomDrawsEarly(streams) ==
    [goal : streams, walls : 3 .. 6, wall : streams, blues : 1 .. 2,
     blue : streams]

(***************************************************************************)
(* Bounds of the model                                                     *)
(***************************************************************************)
\* The longest queue the player types in Spec.
MaxQueue == 2
\* The longest queue of SpecRun.
MaxLen == 3
\* Spec draws goal and wall cells among the first MaxGameCells cells of
\* GameCellOrder.
MaxGameCells == 4
\* SpecGen draws wall cells from streams that start at cell
\* 0 .. MaxWallStart; its streams have stride 0 .. MaxStride.
MaxWallStart == 6
MaxStride == 1
AllCells == 0 .. (NumCells - 1)

\* The cells next to the start first.
GameCellOrder == << 0, 1, 5, 6, 2, 10, 7, 11, 12 >>
GameCells ==
    { GameCellOrder[i] : i \in 1 .. Min(MaxGameCells, Len(GameCellOrder)) }

\* The maps of Spec: every draw of a loop is the same cell of GameCells.
GameMaps == generateRandomMap(Streams(GameCells, 0), Streams(GameCells, 0))

(***************************************************************************)
(* Handlers                                                                *)
(***************************************************************************)
resetAgentToStart(start) == [x |-> start.x, y |-> start.y, dir |-> 1]

\* No call of generateRandomMap is under way.
NoStream == [start |-> 0, stride |-> 0]
GenIdle == [pc |-> "done", goal |-> NoStream, wall |-> NoStream,
            wallCount |-> 0, placedWalls |-> 0]

\* generateRandomMap followed by resetAgentToStart, as every caller does.
LoadMap(m) ==
    /\ grid' = m.grid
    /\ startPos' = m.startPos
    /\ goalPos' = m.goalPos
    /\ solutionPath' = m.solutionPath
    /\ attempts' = m.attempts
    /\ wallAttempts' = m.wallAttempts
    /\ gen' = GenIdle
    /\ agentState' = resetAgentToStart(m.startPos)

\* A handler that starts with `if (isRunning) return` is enabled only while
\* isRunning is false: the early return changes nothing.

\* .cmd-btn click (lines 597-604)
CmdClick(cmd) ==
    /\ ~isRunning
    /\ Len(commandQueue) < MaxQueue
    /\ commandQueue' = Append(commandQueue, cmd)
    /\ UNCHANGED <<variant, mapVars, agentState, isRunning, runs, viewVars>>

\* btnUndo click (lines 606-610); pop on an empty array changes nothing
UndoClick ==
    /\ ~isRunning
    /\ commandQueue' = IF commandQueue = << >> THEN << >>
                       ELSE SubSeq(commandQueue, 1, Len(commandQueue) - 1)
    /\ UNCHANGED <<variant, mapVars, agentState, isRunning, runs, viewVars>>

\* btnClear click (lines 612-617)
ClearClick ==
    /\ ~isRunning
    /\ commandQueue' = << >>
    /\ statusText' = "cleared"
    /\ UNCHANGED <<variant, mapVars, agentState, isRunning, runs,
                   overlaySuccess, overlayFail, inputsDisabled>>

expandForVariant(q) ==
    IF variant = "early" THEN expandCommandsForExecutionEarly(q)
    ELSE expandCommandsForExecution(q)

performForVariant(step, agent, g) ==
    IF variant = "early" THEN performStepEarly(step, agent, g)
    ELSE performStep(step, agent, g)

\* Mutant: startExecution without resetAgentToStart.
startExecutionNoReset ==
    LET steps == expandForVariant(commandQueue)
    IN  /\ agentState' = agentState
        /\ IF Len(steps) = 0
           THEN /\ statusText' = "noValidSteps"
                /\ isRunning' = FALSE
                /\ inputsDisabled' = FALSE
                /\ runs' = runs
           ELSE /\ statusText' = "running"
                /\ isRunning' = TRUE
                /\ inputsDisabled' = TRUE
                /\ runs' = Append(runs, [steps |-> steps, stepIndex |-> 0,
                                         timer |-> "interval"])
        /\ UNCHANGED <<variant, mapVars, commandQueue, overlaySuccess,
                       overlayFail>>

\* startExecution (lines 958-999)
startExecution ==
    LET steps == expandForVariant(commandQueue)
    IN  /\ agentState' = resetAgentToStart(startPos)
        /\ IF Len(steps) = 0
           THEN /\ statusText' = "noValidSteps"
                /\ isRunning' = FALSE
                /\ inputsDisabled' = FALSE
                /\ runs' = runs
           ELSE /\ statusText' = "running"
                /\ isRunning' = TRUE
                /\ inputsDisabled' = TRUE
                /\ runs' = Append(runs, [steps |-> steps, stepIndex |-> 0,
                                         timer |-> "interval"])
        /\ UNCHANGED <<variant, mapVars, commandQueue, overlaySuccess,
                       overlayFail>>

\* Mutant: btnRun click without the test of the queue's length.
RunClickNoEmptyTest ==
    /\ ~isRunning
    /\ startExecution

\* Mutant: btnRun click without the test of isRunning.
RunClickUnguarded ==
    IF Len(commandQueue) = 0
    THEN /\ statusText' = "noCommands"
         /\ UNCHANGED <<variant, mapVars, agentState, commandQueue,
                        isRunning, runs, overlaySuccess, overlayFail,
                        inputsDisabled>>
    ELSE startExecution

\* btnRun click (lines 619-627)
RunClick ==
    /\ ~isRunning
    /\ IF Len(commandQueue) = 0
       THEN /\ statusText' = "noCommands"
            /\ UNCHANGED <<variant, mapVars, agentState, commandQueue,
                           isRunning, runs, overlaySuccess, overlayFail,
                           inputsDisabled>>
       ELSE startExecution

\* btnResetMap click (lines 629-636)
ResetMapClick(maps) ==
    /\ ~isRunning
    /\ \E m \in maps : LoadMap(m)
    /\ statusText' = "mapReset"
    /\ UNCHANGED <<variant, commandQueue, isRunning, runs, overlaySuccess,
                   overlayFail, inputsDisabled>>

\* btnSuccessOk click (lines 638-647).  The button is part of the success
\* overlay, so it is clicked only while that overlay is shown.
SuccessOkClick(maps) ==
    /\ overlaySuccess
    /\ overlaySuccess' = FALSE
    /\ \E m \in maps : LoadMap(m)
    /\ commandQueue' = << >>
    /\ statusText' = "newMap"
    /\ UNCHANGED <<variant, isRunning, runs, overlayFail, inputsDisabled>>

\* btnFailClose click (lines 649-651); part of the failure overlay
FailCloseClick ==
    /\ overlayFail
    /\ overlayFail' = FALSE
    /\ UNCHANGED <<variant, mapVars, agentState, commandQueue, isRunning,
                   runs, overlaySuccess, statusText, inputsDisabled>>

RemoveAt(s, i) == SubSeq(s, 1, i - 1) \o SubSeq(s, i + 1, Len(s))

\* Mutant: the goal test on either coordinate.
endExecutionCheckEitherCoordinate(agent) ==
    /\ isRunning' = FALSE
    /\ inputsDisabled' = FALSE
    /\ IF agent.x = goalPos.x \/ agent.y = goalPos.y
       THEN /\ statusText' = "reachedGoal"
            /\ overlaySuccess' = TRUE
            /\ overlayFail' = FALSE
       ELSE /\ statusText' = "notReached"
            /\ overlaySuccess' = FALSE
            /\ overlayFail' = TRUE

\* endExecutionCheck (lines 1092-1105), on the agent state `agent`
endExecutionCheck(agent) ==
    /\ isRunning' = FALSE
    /\ inputsDisabled' = FALSE
    /\ IF agent.x = goalPos.x /\ agent.y = goalPos.y
       THEN /\ statusText' = "reachedGoal"
            /\ overlaySuccess' = TRUE
            /\ overlayFail' = FALSE
       ELSE /\ statusText' = "notReached"
            /\ overlaySuccess' = FALSE
            /\ overlayFail' = TRUE

\* Mutant: the callback without stepIndex++.
AfterStepNoAdvance(i, r) ==
    /\ agentState' = r.agent
    /\ runs' = [runs EXCEPT ![i].timer = IF r.ret THEN "interval" ELSE "timeout"]
    /\ overlaySuccess' = IF r.overlay = "success" THEN TRUE
                         ELSE IF r.overlay = "fail" THEN FALSE
                         ELSE overlaySuccess
    /\ overlayFail' = IF r.overlay = "fail" THEN TRUE
                      ELSE IF r.overlay = "success" THEN FALSE
                      ELSE overlayFail
    /\ statusText' = IF r.status = "same" THEN statusText ELSE r.status
    /\ UNCHANGED <<isRunning, inputsDisabled>>

\* Mutant: the interval is not cleared when performStep returns false.
AfterStepTimerKept(i, r) ==
    /\ agentState' = r.agent
    /\ runs' = [runs EXCEPT ![i].stepIndex = @ + 1]
    /\ overlaySuccess' = IF r.overlay = "success" THEN TRUE
                         ELSE IF r.overlay = "fail" THEN FALSE
                         ELSE overlaySuccess
    /\ overlayFail' = IF r.overlay = "fail" THEN TRUE
                      ELSE IF r.overlay = "success" THEN FALSE
                      ELSE overlayFail
    /\ statusText' = IF r.status = "same" THEN statusText ELSE r.status
    /\ UNCHANGED <<isRunning, inputsDisabled>>

\* What the interval callback does after performStep returned r for run i
\* (lines 989-997).
AfterStep(i, r) ==
    /\ agentState' = r.agent
    /\ runs' = [runs EXCEPT ![i].stepIndex = @ + 1,
                            ![i].timer = IF r.ret THEN "interval" ELSE "timeout"]
    /\ overlaySuccess' = IF r.overlay = "success" THEN TRUE
                         ELSE IF r.overlay = "fail" THEN FALSE
                         ELSE overlaySuccess
    /\ overlayFail' = IF r.overlay = "fail" THEN TRUE
                      ELSE IF r.overlay = "success" THEN FALSE
                      ELSE overlayFail
    /\ statusText' = IF r.status = "same" THEN statusText ELSE r.status
    /\ UNCHANGED <<isRunning, inputsDisabled>>

\* The setInterval callback of run i (lines 978-998)
TimerTick(i) ==
    /\ runs[i].timer = "interval"
    /\ IF runs[i].stepIndex >= Len(runs[i].steps)
       THEN /\ runs' = RemoveAt(runs, i)
            /\ endExecutionCheck(agentState)
            /\ agentState' = agentState
       ELSE AfterStep(i, performForVariant(runs[i].steps[runs[i].stepIndex + 1],
                                           agentState, grid))
    /\ UNCHANGED <<variant, mapVars, commandQueue>>

\* The setTimeout callback of run i (lines 994-996)
DelayedEndCheck(i) ==
    /\ runs[i].timer = "timeout"
    /\ runs' = RemoveAt(runs, i)
    /\ endExecutionCheck(agentState)
    /\ UNCHANGED <<variant, mapVars, agentState, commandQueue>>

(***************************************************************************)
(* Spec: the later version, from init() on, under every interleaving of    *)
(* clicks and timer callbacks.                                             *)
(***************************************************************************)
\* The state init() leaves (lines 585-592) on map m; both overlays start
\* hidden.
Loaded(v, m) ==
    /\ variant = v
    /\ grid = m.grid
    /\ startPos = m.startPos
    /\ goalPos = m.goalPos
    /\ solutionPath = m.solutionPath
    /\ attempts = m.attempts
    /\ wallAttempts = m.wallAttempts
    /\ gen = GenIdle
    /\ agentState = resetAgentToStart(m.startPos)
    /\ isRunning = FALSE
    /\ runs = << >>
    /\ overlaySuccess = FALSE
    /\ overlayFail = FALSE
    /\ statusText = "ready"
    /\ inputsDisabled = FALSE

Init ==
    /\ \E m \in GameMaps : Loaded("later", m)
    /\ commandQueue = << >>

Next ==
    \/ \E cmd \in Commands : CmdClick(cmd)
    \/ UndoClick
    \/ ClearClick
    \/ RunClick
    \/ ResetMapClick(GameMaps)
    \/ SuccessOkClick(GameMaps)
    \/ FailCloseClick
    \/ \E i \in 1 .. Len(runs) : TimerTick(i)
    \/ \E i \in 1 .. Len(runs) : DelayedEndCheck(i)

Spec == Init /\ [][Next]_vars

(***************************************************************************)
(* SpecRun: both versions, with any queue of up to MaxLen commands typed   *)
(* on a generated map; then runs, and the clicks that need no idle state.  *)
(***************************************************************************)
Queues(cmds, n) == UNION { [1 .. k -> cmds] : k \in 1 .. n }

\* The earlier generator's maps when every loop draws the cells in
\* row-major order.
SweepMapsEarly ==
    { generateRandomMapEarly(d) :
        d \in RandomDrawsEarly({[start |-> 0, stride |-> 1]}) }

MapsForVariant == IF variant = "early" THEN SweepMapsEarly ELSE GameMaps

InitRun ==
    \/ /\ \E m \in GameMaps : Loaded("later", m)
       /\ commandQueue \in Queues(Commands, MaxLen)
    \/ /\ \E m \in SweepMapsEarly : Loaded("early", m)
       /\ commandQueue \in Queues(CommandsEarly, MaxLen)

NextRun ==
    \/ RunClick
    \/ SuccessOkClick(MapsForVariant)
    \/ FailCloseClick
    \/ \E i \in 1 .. Len(runs) : TimerTick(i)
    \/ \E i \in 1 .. Len(runs) : DelayedEndCheck(i)

SpecRun == InitRun /\ [][NextRun]_vars

(***************************************************************************)
(* SpecStep: performStep of the later version as a function.  A run of a   *)
(* one-command queue is about to perform its step, with the agent on any   *)
(* cell with any heading, on any grid of StepGrids.                        *)
(***************************************************************************)
\* A goal at cell n and a cell of kind k right after it in row-major order.
StepGrid(n, k) ==
    LET goal == CellAt(n)
        other == CellAt((n + 1) % NumCells)
    IN  [EmptyGrid EXCEPT ![goal.y][goal.x] = "goal", ![other.y][other.x] = k]

InitStep ==
    /\ variant = "later"
    /\ \E n \in AllCells, k \in {"wall", "blue"} :
          /\ grid = StepGrid(n, k)
          /\ goalPos = CellAt(n)
    /\ startPos = [x |-> 0, y |-> 0]
    /\ solutionPath = << >>
    /\ attempts = 0
    /\ wallAttempts = 0
    /\ gen = GenIdle
    /\ agentState \in [x : Coords, y : Coords, dir : 0 .. 3]
    /\ commandQueue \in Queues(Commands, 1)
    /\ runs = << [steps |-> expandCommandsForExecution(commandQueue),
                  stepIndex |-> 0, timer |-> "interval"] >>
    /\ isRunning = TRUE
    /\ inputsDisabled = TRUE
    /\ statusText = "running"
    /\ overlaySuccess = FALSE
    /\ overlayFail = FALSE

NextStep ==
    \/ \E i \in 1 .. Len(runs) : TimerTick(i)
    \/ \E i \in 1 .. Len(runs) : DelayedEndCheck(i)

SpecStep == InitStep /\ [][NextStep]_vars

(***************************************************************************)
(* SpecGen: the later version on every map of the path-first generator     *)
(* for the draws of the bounds; the player types the commands that follow  *)
(* the solution path and runs them.                                        *)
(***************************************************************************)
InitGen ==
    /\ \E m \in generateRandomMap(Streams(AllCells, MaxStride),
                                  Streams(0 .. MaxWallStart, MaxStride)) :
          Loaded("later", m)
    /\ commandQueue = << >>

\* The turns that bring heading `from` to heading `to`.
TurnsTo(from, to) ==
    LET k == (to - from + 4) % 4
    IN  IF k = 0 THEN << >>
        ELSE IF k = 1 THEN << "R" >>
        ELSE IF k = 3 THEN << "L" >>
        ELSE << "R", "R" >>

HeadingOf(a, b) ==
    CHOOSE d \in 0 .. 3 : a.x + DIRS[d + 1].dx = b.x /\ a.y + DIRS[d + 1].dy = b.y

\* F, L and R along path[i], path[i + 1], ... for an agent that stands on
\* path[i] with heading dir.
RECURSIVE FollowPath(_, _, _)
FollowPath(path, i, dir) ==
    IF i >= Len(path) THEN << >>
    ELSE LET d == HeadingOf(path[i], path[i + 1])
         IN  TurnsTo(dir, d) \o << "F" >> \o FollowPath(path, i + 1, d)

\* A path of one cell (the goal is the start) is followed by a turn on the
\* spot: Run refuses an empty queue.
SolutionCommands ==
    IF Len(solutionPath) <= 1 THEN << "R" >> ELSE FollowPath(solutionPath, 1, 1)

\* The player clicks the command buttons of SolutionCommands in turn.
TypeSolution ==
    /\ ~isRunning
    /\ commandQueue = << >>
    /\ commandQueue' = SolutionCommands
    /\ UNCHANGED <<variant, mapVars, agentState, isRunning, runs, viewVars>>

NextGen ==
    \/ TypeSolution
    \/ RunClick
    \/ \E i \in 1 .. Len(runs) : TimerTick(i)
    \/ \E i \in 1 .. Len(runs) : DelayedEndCheck(i)

SpecGen == InitGen /\ [][NextGen]_vars

(***************************************************************************)
(* Properties                                                              *)
(***************************************************************************)
\* The run performs a step in this transition.
Ticking ==
    /\ Len(runs) = 1
    /\ Len(runs') = 1
    /\ runs'[1].stepIndex = runs[1].stepIndex + 1

\* The step a tick performs, and the cell a Forward would enter.
CurrentStep == runs[1].steps[runs[1].stepIndex + 1]
CandidateX == agentState.x + DIRS[agentState.dir + 1].dx
CandidateY == agentState.y + DIRS[agentState.dir + 1].dy
CandidateInside == CandidateX \in Coords /\ CandidateY \in Coords
CandidateIs(kind) == CandidateInside /\ grid[CandidateY][CandidateX] = kind

\* startExecution expands the queue and starts a run in this transition.
Starting == Len(runs') = Len(runs) + 1
StartedSteps == runs'[Len(runs')].steps

ActionsOf(steps) == [k \in 1 .. Len(steps) |-> steps[k].action]
TaggedAt(steps, i) == { k \in 1 .. Len(steps) : steps[k].fromIndex = i }
AtGoal == agentState.x = goalPos.x /\ agentState.y = goalPos.y

(***************************************************************************)
(* C1: the path-first generator puts no wall on a cell of the solution     *)
(* path, and the run of the commands that follow the path never fails and  *)
(* ends with the agent on the goal and the success overlay shown.          *)
(***************************************************************************)
C1_PathNeverWalled ==
    /\ \A i \in 1 .. Len(solutionPath) :
          grid[solutionPath[i].y][solutionPath[i].x] # "wall"
    /\ statusText \notin {"outOfBounds", "hitWall", "notReached"}
    /\ (~isRunning /\ statusText = "reachedGoal")
          => (AtGoal /\ overlaySuccess /\ ~overlayFail)

\* A run of the path commands has ended in success on a map whose goal is
\* at distance 6 or more and which holds at least three walls.
C1_Witness ==
    /\ ~isRunning
    /\ statusText = "reachedGoal"
    /\ overlaySuccess
    /\ Manhattan(goalPos, startPos) >= MinGoalDistance
    /\ Cardinality({ c \in Cells : grid[c.y][c.x] = "wall" }) >= 3
    /\ Len(commandQueue) >= 7

(***************************************************************************)
(* C2: a Forward that reaches the goal, leaves the grid or hits a wall     *)
(* turns the run's interval timer into the pending end check, and from     *)
(* then on the run performs no step: it stays as it is until its end check *)
(* removes it.  With the goal at (1, 0), of the steps F, R, F only the      *)
(* first is performed.                                                     *)
(***************************************************************************)
ForwardHalts ==
    ~CandidateInside \/ CandidateIs("wall") \/ CandidateIs("goal")

\* The queue F, R, F is running on the map it was started on.
GoalNextToStart ==
    /\ goalPos = [x |-> 1, y |-> 0]
    /\ Len(runs) = 1
    /\ commandQueue = << "F", "R", "F" >>
    /\ ActionsOf(runs[1].steps) = << "F", "R", "F" >>

C2_EarlyHalt ==
    /\ [](GoalNextToStart => (runs[1].stepIndex <= 1 /\ agentState.dir = 1))
    /\ [][ /\ (Ticking /\ CurrentStep.action = "F" /\ ForwardHalts)
                => runs'[1].timer = "timeout"
           /\ (Len(runs) = 1 /\ runs[1].timer = "timeout")
                => (runs' = << >> \/ runs' = runs) ]_vars

\* The first Forward of F, R, F has reached the goal and the run waits for
\* its end check.
C2_Witness ==
    /\ GoalNextToStart
    /\ runs[1].timer = "timeout"
    /\ runs[1].stepIndex = 1
    /\ AtGoal

(***************************************************************************)
(* C3: a Forward whose candidate cell is outside the grid halts with the   *)
(* out-of-bounds status and leaves the agent as it was; otherwise a        *)
(* Forward into a wall halts with the wall status and leaves the agent as  *)
(* it was; otherwise the agent moves to the candidate cell and keeps its   *)
(* heading.                                                                *)
(***************************************************************************)
C3_ForwardSemantics ==
    [][ (Ticking /\ CurrentStep.action = "F") =>
          IF ~CandidateInside
          THEN /\ agentState' = agentState
               /\ runs'[1].timer = "timeout"
               /\ statusText' = "outOfBounds"
          ELSE IF grid[CandidateY][CandidateX] = "wall"
          THEN /\ agentState' = agentState
               /\ runs'[1].timer = "timeout"
               /\ statusText' = "hitWall"
          ELSE agentState' = [x |-> CandidateX, y |-> CandidateY,
                              dir |-> agentState.dir] ]_vars

\* A Forward has hit the wall in front of the agent.
C3_Witness ==
    /\ Len(runs) = 1
    /\ runs[1].stepIndex = 1
    /\ runs[1].steps[1].action = "F"
    /\ runs[1].timer = "timeout"
    /\ statusText = "hitWall"
    /\ CandidateIs("wall")

(***************************************************************************)
(* C4: IFBLUE_R turns the heading right by one when the agent stands on a  *)
(* blue cell and leaves it otherwise; IFBLUE_L does the same to the left;  *)
(* the position never changes and the run continues.                       *)
(***************************************************************************)
OnBlue == grid[agentState.y][agentState.x] = "blue"

ConditionalTurn(k) ==
    /\ agentState' = [agentState EXCEPT
                        !.dir = IF OnBlue THEN (agentState.dir + k) % 4
                                ELSE agentState.dir]
    /\ runs'[1].timer = "interval"

C4_ConditionalTurn ==
    [][ /\ (Ticking /\ CurrentStep.action = "IFBLUE_R") => ConditionalTurn(1)
        /\ (Ticking /\ CurrentStep.action = "IFBLUE_L") => ConditionalTurn(3)
      ]_vars

\* IFBLUE_L has been performed on a blue cell and the run goes on.
C4_Witness ==
    /\ Len(runs) = 1
    /\ runs[1].stepIndex = 1
    /\ runs[1].steps[1].action = "IFBLUE_L"
    /\ runs[1].timer = "interval"
    /\ OnBlue

(***************************************************************************)
(* C5: when a run starts, every LOOP2 of the queue that has a follower     *)
(* gave exactly two steps, next to each other, tagged with the LOOP2's     *)
(* index and with the follower as action, and the follower gave a step of  *)
(* its own; the queue LOOP2, F gives F@0, F@0, F@1.                        *)
(***************************************************************************)
RepeatExpanded(q, steps, i) ==
    LET tagged == TaggedAt(steps, i)
    IN  /\ \E k \in 1 .. Len(steps) : tagged = {k, k + 1}
        /\ \A k \in tagged : steps[k].action = q[i + 2]
        /\ TaggedAt(steps, i + 1) # {}

C5_RepeatExpansion ==
    [][ Starting =>
          /\ \A i \in 0 .. (Len(commandQueue) - 2) :
                commandQueue[i + 1] = "LOOP2"
                   => RepeatExpanded(commandQueue, StartedSteps, i)
          /\ commandQueue = << "LOOP2", "F" >>
                => StartedSteps = << Step(0, "F"), Step(0, "F"), Step(1, "F") >>
      ]_vars

\* The run of LOOP2, F has performed its three Forward steps.
C5_Witness ==
    /\ commandQueue = << "LOOP2", "F" >>
    /\ Len(runs) = 1
    /\ runs[1].stepIndex = 3
    /\ agentState.x = 3

(***************************************************************************)
(* C6: when a run starts on a queue that ends in LOOP2, exactly one step   *)
(* is tagged with the last index and it is a NOOP; performing a NOOP       *)
(* leaves the agent as it was and the run goes on.                         *)
(***************************************************************************)
C6_TrailingRepeat ==
    [][ /\ (Starting /\ commandQueue[Len(commandQueue)] = "LOOP2") =>
              \E k \in 1 .. Len(StartedSteps) :
                 /\ TaggedAt(StartedSteps, Len(commandQueue) - 1) = {k}
                 /\ StartedSteps[k].action = "NOOP"
        /\ (Starting /\ commandQueue = << "LOOP2" >>)
              => StartedSteps = << Step(0, "NOOP") >>
        /\ (Ticking /\ CurrentStep.action = "NOOP") =>
              /\ agentState' = agentState
              /\ runs'[1].timer = "interval"
      ]_vars

\* The NOOP of a trailing LOOP2 has been performed.
C6_Witness ==
    /\ Len(commandQueue) >= 2
    /\ commandQueue[Len(commandQueue)] = "LOOP2"
    /\ Len(runs) = 1
    /\ runs[1].stepIndex = Len(runs[1].steps)
    /\ runs[1].steps[Len(runs[1].steps)] = Step(Len(commandQueue) - 1, "NOOP")
    /\ runs[1].timer = "interval"

(***************************************************************************)
(* C7: the step of a conditional that is the last command of the queue.    *)
(***************************************************************************)
Conditionals == {"IFBLUE_R", "IFBLUE_L", "IFBLUE"}

EndsInConditional ==
    /\ commandQueue # << >>
    /\ commandQueue[Len(commandQueue)] \in Conditionals

\* The run performs the step that was emitted for the last index of a queue
\* that ends in a conditional.
TrailingConditionalStep ==
    /\ Ticking
    /\ EndsInConditional
    /\ CurrentStep.fromIndex = Len(commandQueue) - 1

\* C7 as claimed: performing the step emitted for a trailing conditional
\* never changes the agent's heading or position, whatever cell the agent
\* stands on.
C7_TrailingConditionalNoOp ==
    [][ TrailingConditionalStep => agentState' = agentState ]_vars

\* C7 amended: exactly one step is emitted for a trailing conditional.  In
\* the earlier version it is a NOOP_COND and performing it changes nothing.
\* In the later version it is the conditional itself: performing it never
\* changes the position, and it turns the heading (right by one for
\* IFBLUE_R, left by one for IFBLUE_L) exactly when the agent stands on a
\* blue cell.  In both versions the run goes on.
C7_TrailingConditional ==
    [][ /\ (Starting /\ EndsInConditional) =>
              \E k \in 1 .. Len(StartedSteps) :
                 /\ TaggedAt(StartedSteps, Len(commandQueue) - 1) = {k}
                 /\ StartedSteps[k].action =
                       IF variant = "early" THEN "NOOP_COND"
                       ELSE commandQueue[Len(commandQueue)]
        /\ TrailingConditionalStep =>
              /\ agentState'.x = agentState.x
              /\ agentState'.y = agentState.y
              /\ runs'[1].timer = "interval"
              /\ agentState'.dir =
                    IF variant = "later" /\ OnBlue
                    THEN IF CurrentStep.action = "IFBLUE_R"
                         THEN (agentState.dir + 1) % 4
                         ELSE (agentState.dir + 3) % 4
                    ELSE agentState.dir
      ]_vars

\* The trailing IFBLUE_R of F, IFBLUE_R has been performed on the blue cell
\* and has turned the heading from east to south.
C7_Witness ==
    /\ variant = "later"
    /\ commandQueue = << "F", "IFBLUE_R" >>
    /\ Len(runs) = 1
    /\ runs[1].stepIndex = 2
    /\ runs[1].steps[2] = Step(1, "IFBLUE_R")
    /\ OnBlue
    /\ agentState.dir = 2

(***************************************************************************)
(* C8: when a run of the later version starts, every emitted step has an   *)
(* action among F, L, R, NOOP, IFBLUE_R and IFBLUE_L (never LOOP2) and a   *)
(* fromIndex that is an index of the queue.                                *)
(***************************************************************************)
Primitives == {"F", "L", "R", "NOOP", "IFBLUE_R", "IFBLUE_L"}

C8_PrimitiveVocabulary ==
    [][ (Starting /\ variant = "later") =>
          \A k \in 1 .. Len(StartedSteps) :
             /\ StartedSteps[k].action \in Primitives
             /\ StartedSteps[k].fromIndex \in 0 .. (Len(commandQueue) - 1)
      ]_vars

(***************************************************************************)
(* C9: while isRunning is true no transition changes the queue, the grid,  *)
(* the start or the goal, and the agent changes only when the run performs *)
(* a step.                                                                 *)
(***************************************************************************)
C9_RunningGate ==
    [][ isRunning =>
          /\ commandQueue' = commandQueue
          /\ grid' = grid
          /\ startPos' = startPos
          /\ goalPos' = goalPos
          /\ (agentState' # agentState => Ticking)
      ]_vars

(***************************************************************************)
(* C10: a run is started only while isRunning is false, at most one run    *)
(* (an interval timer or a pending end check) exists at any time,          *)
(* isRunning is true exactly while a run exists, and it falls only in the  *)
(* transition in which the run's endExecutionCheck removes the run.        *)
(***************************************************************************)
C10_SingleActiveRun ==
    /\ [](Len(runs) <= 1 /\ (isRunning <=> runs # << >>))
    /\ [][ /\ Starting => ~isRunning
           /\ (isRunning /\ ~isRunning') => (runs' = << >> /\ Len(runs) = 1)
         ]_vars

\* The run's Forward has reached the goal, its end check is pending, the
\* success overlay is shown and isRunning is still true.
C10_Witness ==
    /\ isRunning
    /\ Len(runs) = 1
    /\ runs[1].timer = "timeout"
    /\ overlaySuccess
    /\ AtGoal

(***************************************************************************)
(* C11: on every map of the path-first generator exactly one cell is the   *)
(* goal and it is the cell at goalPos; the start cell (0, 0) is neither    *)
(* wall nor blue; every cell holds one of the four kinds, so none is both  *)
(* wall and blue.                                                          *)
(***************************************************************************)
CellsOf(kind) == { c \in Cells : grid[c.y][c.x] = kind }

C11_GridWellFormed ==
    /\ CellsOf("goal") = { goalPos }
    /\ startPos = [x |-> 0, y |-> 0]
    /\ grid[startPos.y][startPos.x] \notin {"wall", "blue"}
    /\ \A c \in Cells : grid[c.y][c.x] \in CellKinds
    /\ CellsOf("wall") \cap CellsOf("blue") = {}

\* A finished map with a blue cell, five walls and the goal away from the
\* start.
C11_Witness ==
    /\ statusText = "ready"
    /\ CellsOf("blue") # {}
    /\ Cardinality(CellsOf("wall")) = 5
    /\ goalPos # startPos

(***************************************************************************)
(* C12: on every map of the path-first generator, also when the goal loop  *)
(* was left by its break, goalPos is not the start cell (0, 0) and the     *)
(* start cell holds kind empty.                                            *)
(***************************************************************************)
C12_GoalNotStart ==
    /\ ~(goalPos.x = 0 /\ goalPos.y = 0)
    /\ grid[0][0] = "empty"

(***************************************************************************)
(* C13: when the goal loop of the path-first generator ended within its    *)
(* attempt bound (attempts is at most 50, so it was left through its test  *)
(* and not through the break), the goal is at Manhattan distance 6 or more *)
(* from the start.                                                         *)
(***************************************************************************)
C13_GoalDistance ==
    attempts <= MaxGoalAttempts => Manhattan(goalPos, startPos) >= MinGoalDistance

\* The loop rejected samples and then accepted one within its bound.
C13_Witness ==
    /\ attempts > 1
    /\ attempts <= MaxGoalAttempts
    /\ Manhattan(goalPos, startPos) >= MinGoalDistance
    /\ statusText = "ready"

(***************************************************************************)
(* C14: on every map of the path-first generator there are at most 5 wall  *)
(* cells, and at least 3 unless the 100 placement attempts were used up;   *)
(* there are at most 2 blue cells and no more than findCorners returns for *)
(* the solution path; every blue cell is one of those corners and no wall  *)
(* cell is on the solution path.                                           *)
(***************************************************************************)
PathCellSet == { solutionPath[i] : i \in 1 .. Len(solutionPath) }
CornerSet ==
    LET corners == findCorners(solutionPath)
    IN  { corners[i] : i \in 1 .. Len(corners) }

C14_WallAndBlueCounts ==
    /\ Cardinality(CellsOf("wall")) <= 5
    /\ wallAttempts < MaxWallAttempts => Cardinality(CellsOf("wall")) >= 3
    /\ Cardinality(CellsOf("blue")) <= 2
    /\ Cardinality(CellsOf("blue")) <= Len(findCorners(solutionPath))
    /\ CellsOf("blue") \subseteq CornerSet
    /\ CellsOf("wall") \cap PathCellSet = {}

\* A map with a blue corner whose wall loop placed three walls and rejected
\* draws on the way, within its attempts.
C14_Witness ==
    /\ Cardinality(CellsOf("blue")) = 1
    /\ Cardinality(CellsOf("wall")) = 3
    /\ wallAttempts > 3
    /\ wallAttempts < MaxWallAttempts
    /\ statusText = "ready"

(***************************************************************************)
(* C15: startExecution sets the agent to the start cell with heading 1     *)
(* whatever the previous run left, so a run is a function of the grid, the *)
(* start, the goal and the queue: while the queue and map of a run are     *)
(* those it was started on, the agent after k steps and the halt flag are  *)
(* what k steps of performStep give from the reset state, and the end      *)
(* check reports the outcome of that final agent.  Two runs on the same    *)
(* inputs therefore pass through the same agent states to the same end.    *)
(***************************************************************************)
\* The agent and the halt flag after the first k of `steps`, from the reset
\* state on the present grid; no step follows one that returned false.
RECURSIVE Replay(_, _)
Replay(steps, k) ==
    IF k = 0
    THEN [agent |-> [x |-> startPos.x, y |-> startPos.y, dir |-> 1],
          halted |-> FALSE]
    ELSE LET prev == Replay(steps, k - 1)
         IN  IF prev.halted THEN prev
             ELSE LET r == performForVariant(steps[k], prev.agent, grid)
                  IN  [agent |-> r.agent, halted |-> ~r.ret]

\* A run is active and no click has changed the queue it was started on
\* (the only click that changes the map during a run empties the queue).
Undisturbed ==
    /\ Len(runs) = 1
    /\ commandQueue # << >>
    /\ runs[1].steps = expandForVariant(commandQueue)

ReplayedAgent == Replay(runs[1].steps, runs[1].stepIndex).agent

C15_RunDeterminism ==
    /\ [](Undisturbed =>
            /\ agentState = ReplayedAgent
            /\ (runs[1].timer = "timeout")
                  = Replay(runs[1].steps, runs[1].stepIndex).halted)
    /\ [][ /\ Starting => agentState' = [x |-> startPos.x, y |-> startPos.y,
                                         dir |-> 1]
           /\ (Undisturbed /\ runs' = << >>) =>
                 statusText' = IF /\ ReplayedAgent.x = goalPos.x
                                  /\ ReplayedAgent.y = goalPos.y
                               THEN "reachedGoal" ELSE "notReached"
         ]_vars

\* A second run of the same queue is under way: the failure overlay of the
\* first run's end is still shown while the interval is armed, and the
\* agent has left the start again.
C15_Witness ==
    /\ Undisturbed
    /\ runs[1].timer = "interval"
    /\ runs[1].stepIndex >= 2
    /\ overlayFail
    /\ agentState.x + agentState.y >= 2

(***************************************************************************)
(* C16: when a run has performed all its steps and none halted it, the     *)
(* only thing its timer does is end the run through endExecutionCheck, on  *)
(* the agent as the last step left it: the run is removed, isRunning       *)
(* falls, and the outcome is success (status and success overlay) exactly  *)
(* when the agent stands on goalPos, else the failure of commands that     *)
(* finished without reaching the goal (status and failure overlay).        *)
(***************************************************************************)
Exhausted ==
    /\ Len(runs) = 1
    /\ runs[1].timer = "interval"
    /\ runs[1].stepIndex >= Len(runs[1].steps)

C16_QueueExhausted ==
    [][ (Exhausted /\ runs' # runs) =>
          /\ runs' = << >>
          /\ ~isRunning'
          /\ agentState' = agentState
          /\ IF AtGoal
             THEN /\ statusText' = "reachedGoal"
                  /\ overlaySuccess'
                  /\ ~overlayFail'
             ELSE /\ statusText' = "notReached"
                  /\ overlayFail'
                  /\ ~overlaySuccess'
      ]_vars

\* The run of L, R, L, which no step halts, has ended away from the goal.
C16_Witness ==
    /\ commandQueue = << "L", "R", "L" >>
    /\ runs = << >>
    /\ ~isRunning
    /\ statusText = "notReached"
    /\ overlayFail
    /\ agentState.dir = 0
    /\ ~AtGoal

(***************************************************************************)
(* C17: a click on Run while the queue is empty starts no run and changes  *)
(* nothing of the core state: isRunning stays false, no timer is           *)
(* scheduled, agentState, the map and the queue stay as they are (the      *)
(* agent is not reset), and the click shows no overlay; only the status    *)
(* line reports that there are no commands.                                *)
(***************************************************************************)
C17_EmptyQueueRun ==
    [][ (RunClick /\ commandQueue = << >>) =>
          /\ ~isRunning'
          /\ runs' = << >>
          /\ agentState' = agentState
          /\ UNCHANGED <<grid, startPos, goalPos, commandQueue>>
          /\ UNCHANGED <<overlaySuccess, overlayFail, inputsDisabled>>
          /\ statusText' = "noCommands"
      ]_vars

\* Run was clicked on an empty queue after an earlier run had left the
\* agent away from the start: the agent is still there.
C17_Witness ==
    /\ statusText = "noCommands"
    /\ commandQueue = << >>
    /\ ~isRunning
    /\ runs = << >>
    /\ agentState # [x |-> startPos.x, y |-> startPos.y, dir |-> 1]

(***************************************************************************)
(* SpecEarlyGen: the earlier version on the maps of its random-wall        *)
(* generator, for draw streams that start at cell 0 .. MaxEarlyStart with  *)
(* stride 1 .. MaxEarlyStride; the player types F and R and runs them.     *)
(* The generator's loops have no attempt bound, so a stream that repeats   *)
(* one rejected cell (stride 0) would keep them running for ever; the      *)
(* strides here visit every cell.                                          *)
(***************************************************************************)
MaxEarlyStart == 2
MaxEarlyStride == 2

EarlyStreams == [start : 0 .. MaxEarlyStart, stride : 1 .. MaxEarlyStride]

InitEarlyGen ==
    /\ \E m \in { generateRandomMapEarly(d) : d \in RandomDrawsEarly(EarlyStreams) } :
          Loaded("early", m)
    /\ commandQueue = << >>

NextEarlyGen ==
    \/ \E cmd \in {"F", "R"} : CmdClick(cmd)
    \/ RunClick
    \/ \E i \in 1 .. Len(runs) : TimerTick(i)
    \/ \E i \in 1 .. Len(runs) : DelayedEndCheck(i)

SpecEarlyGen == InitEarlyGen /\ [][NextEarlyGen]_vars

\* The cells that orthogonal moves through non-wall cells of g reach from
\* the cells of `seen`.
RECURSIVE Flood(_, _)
Flood(g, seen) ==
    LET more == { n \in Cells :
                    /\ n \notin seen
                    /\ g[n.y][n.x] # "wall"
                    /\ \E c \in seen : Manhattan(n, c) = 1 }
    IN  IF more = {} THEN seen ELSE Flood(g, seen \cup more)

GoalReachable == goalPos \in Flood(grid, { startPos })

(***************************************************************************)
(* C18: on every map of the earlier generator the goal is reachable from   *)
(* the start (0, 0) by orthogonal moves through non-wall cells of the      *)
(* grid.                                                                   *)
(***************************************************************************)
C18_EarlyMapSolvable == variant = "early" => GoalReachable

(***************************************************************************)
(* C19: expanding the queue when a run starts leaves the queue and the     *)
(* grid as they are and gives the steps of the queue, the same on every    *)
(* call; and while a run lasts, from startExecution's reset to its         *)
(* endExecutionCheck, the agent's position and heading change only by      *)
(* performStep on the run's current step.                                  *)
(***************************************************************************)
C19_AgentMutationDiscipline ==
    [][ /\ Starting =>
              /\ UNCHANGED <<commandQueue, grid>>
              /\ StartedSteps = expandForVariant(commandQueue')
        /\ (Len(runs) = 1 /\ Len(runs') = 1 /\ agentState' # agentState) =>
              /\ Ticking
              /\ agentState' = performForVariant(CurrentStep, agentState,
                                                 grid).agent
      ]_vars

(***************************************************************************)
(* SpecLoop: one call of the path-first generateRandomMap, pass by pass of *)
(* its two loops.  The goal cells and the wall cells are drawn from the    *)
(* streams that start at a cell of GameCells with stride 0 .. MaxStride.   *)
(* The call is straight-line code inside one event handler, so it always   *)
(* takes its next step: weak fairness of the next-state relation.          *)
(***************************************************************************)
LoopStreams == Streams(GameCells, MaxStride)

\* Lines 658-668: the empty grid, the start, attempts = 0; goalPos still
\* holds its initial (4, 4) (line 555).
InitLoop ==
    /\ variant = "later"
    /\ grid = EmptyGrid
    /\ startPos = [x |-> 0, y |-> 0]
    /\ goalPos = [x |-> 4, y |-> 4]
    /\ agentState = [x |-> 0, y |-> 0, dir |-> 1]
    /\ solutionPath = << >>
    /\ attempts = 0
    /\ wallAttempts = 0
    /\ \E g \in LoopStreams :
          gen = [pc |-> "goal", goal |-> g, wall |-> NoStream,
                 wallCount |-> 0, placedWalls |-> 0]
    /\ commandQueue = << >>
    /\ isRunning = FALSE
    /\ runs = << >>
    /\ overlaySuccess = FALSE
    /\ overlayFail = FALSE
    /\ statusText = "ready"
    /\ inputsDisabled = FALSE

\* One pass of the do-while of lines 669-680.
GoalLoopPass ==
    /\ gen.pc = "goal"
    /\ LET s == GoalPass([goalPos |-> goalPos, attempts |-> attempts,
                          done |-> FALSE], gen.goal, startPos)
       IN  /\ goalPos' = s.goalPos
           /\ attempts' = s.attempts
           /\ gen' = IF s.done THEN [gen EXCEPT !.pc = "path"] ELSE gen
    /\ UNCHANGED <<variant, grid, startPos, solutionPath, wallAttempts,
                   agentState, commandQueue, isRunning, runs, viewVars>>

\* Lines 682-710: the goal cell, the path, the blue cells, and the draw of
\* wallCount; the wall cells will come from stream w.wall.
PlacePath ==
    /\ gen.pc = "path"
    /\ \E w \in WallDraws(LoopStreams) :
          gen' = [pc |-> "walls", goal |-> NoStream, wall |-> w.wall,
                  wallCount |-> w.walls, placedWalls |-> 0]
    /\ \E d \in [horizontal : BOOLEAN, blue : 1 .. 2, shuffle : 0 .. 1] :
          LET marked == MarkPath(grid, startPos, goalPos, d)
          IN  /\ grid' = marked.grid
              /\ solutionPath' = marked.solutionPath
    /\ UNCHANGED <<variant, startPos, goalPos, attempts, wallAttempts,
                   agentState, commandQueue, isRunning, runs, viewVars>>

\* The test of the while of line 712 and, when it holds, one pass of the
\* loop (lines 713-727); when it fails the call returns (line 729).
WallLoopPass ==
    /\ gen.pc = "walls"
    /\ IF ~(gen.placedWalls < gen.wallCount /\ wallAttempts < MaxWallAttempts)
       THEN /\ gen' = GenIdle
            /\ UNCHANGED <<grid, wallAttempts>>
       ELSE LET pathCells == { CellKey(solutionPath[i].x, solutionPath[i].y) :
                                 i \in 1 .. Len(solutionPath) }
                s == WallPass([grid |-> grid, placedWalls |-> gen.placedWalls,
                               wallAttempts |-> wallAttempts],
                              gen.wallCount, gen.wall, pathCells, startPos,
                              goalPos)
            IN  /\ grid' = s.grid
                /\ wallAttempts' = s.wallAttempts
                /\ gen' = [gen EXCEPT !.placedWalls = s.placedWalls]
    /\ UNCHANGED <<variant, startPos, goalPos, solutionPath, attempts,
                   agentState, commandQueue, isRunning, runs, viewVars>>

NextLoop ==
    \/ GoalLoopPass
    \/ PlacePath
    \/ WallLoopPass

SpecLoop == InitLoop /\ [][NextLoop]_vars /\ WF_vars(NextLoop)

(***************************************************************************)
(* C20: every call of the path-first generateRandomMap finishes.  The goal *)
(* loop makes at most MaxGoalAttempts + 1 passes and the wall loop at most *)
(* MaxWallAttempts: each pass counts one attempt and the counters never    *)
(* exceed those bounds, also when every draw is rejected; so the call      *)
(* eventually returns.                                                     *)
(***************************************************************************)
C20_GenerationTerminates ==
    /\ [](attempts <= MaxGoalAttempts + 1 /\ wallAttempts <= MaxWallAttempts)
    /\ [][ /\ gen.pc = "goal" => attempts' = attempts + 1
           /\ (gen.pc = "walls" /\ gen'.pc = "walls")
                 => wallAttempts' = wallAttempts + 1 ]_vars
    /\ <>(gen.pc = "done")

\* The call has returned after every goal draw and every wall draw was
\* rejected: both loops used up their attempts.
C20_Witness ==
    /\ gen.pc = "done"
    /\ attempts = MaxGoalAttempts + 1
    /\ wallAttempts = MaxWallAttempts
    /\ CellsOf("wall") = {}

(***************************************************************************)
(* C21: on every map of the path-first generator, when a run of the later  *)
(* version has halted because a Forward left the grid or hit a wall, the   *)
(* end check of that run leaves the failure overlay shown and the success  *)
(* overlay hidden.                                                         *)
(***************************************************************************)
\* The run has halted on a failed Forward and its end check is pending.
HaltedOnFailure ==
    /\ Len(runs) = 1
    /\ runs[1].timer = "timeout"
    /\ statusText \in {"outOfBounds", "hitWall"}

C21_FailureFinal ==
    [][ (variant = "later" /\ HaltedOnFailure /\ runs' = << >>) =>
            (overlayFail' /\ ~overlaySuccess')
      ]_vars

(***************************************************************************)
(* SpecTimers: SpecRun with the timers firing.  A timer the browser has    *)
(* armed (setInterval, setTimeout) fires as long as it is not cleared:     *)
(* weak fairness of the timer callbacks.  The clicks are the player's and  *)
(* carry no fairness.                                                      *)
(***************************************************************************)
TimerFires ==
    \E i \in 1 .. Len(runs) : TimerTick(i) \/ DelayedEndCheck(i)

SpecTimers == InitRun /\ [][NextRun]_vars /\ WF_vars(TimerFires)

(***************************************************************************)
(* C22: a run of n steps performs at most n steps, one per interval tick,  *)
(* and one more tick or the delayed callback ends it; its end check runs   *)
(* in the transition that removes the run, and only then, and leaves       *)
(* isRunning false and the command inputs enabled; with the timers firing  *)
(* every run ends, so isRunning never stays true for ever.                 *)
(***************************************************************************)
C22_RunTerminates ==
    /\ [](\A i \in 1 .. Len(runs) :
             /\ runs[i].stepIndex <= Len(runs[i].steps)
             /\ runs[i].timer = "timeout" => runs[i].stepIndex >= 1)
    /\ [][ /\ (Len(runs) = 1 /\ Len(runs') = 1 /\ runs' # runs) =>
                 /\ runs[1].timer = "interval"
                 /\ runs'[1].steps = runs[1].steps
                 /\ runs'[1].stepIndex = runs[1].stepIndex + 1
           /\ (Len(runs) = 1 /\ runs' = << >>) =>
                 /\ ~isRunning' /\ ~inputsDisabled'
                 /\ \/ runs[1].timer = "timeout"
                    \/ runs[1].stepIndex = Len(runs[1].steps)
           /\ (isRunning /\ ~isRunning') => (Len(runs) = 1 /\ runs' = << >>)
         ]_vars
    /\ (isRunning ~> ~isRunning)

\* A run has ended on the tick after its last step: n + 1 ticks.
C22_Witness ==
    /\ ~isRunning
    /\ runs = << >>
    /\ ~inputsDisabled
    /\ statusText = "notReached"
    /\ Len(commandQueue) = MaxLen
    /\ \A k \in 1 .. Len(commandQueue) : commandQueue[k] \in {"L", "R"}

(***************************************************************************)
(* C23: under every interleaving of clicks and timer callbacks, when a run *)
(* has halted because a Forward reached the goal, the delayed end check of *)
(* that run leaves the success overlay shown and the failure overlay       *)
(* hidden in the transition in which isRunning falls.                      *)
(***************************************************************************)
\* The run has halted and its end check is pending, and the halt was not a
\* failed Forward: performStep returns false only for a failed Forward or
\* for a Forward onto the goal (lines 1060, 1068 and 1081).
HaltedOnGoal ==
    /\ Len(runs) = 1
    /\ runs[1].timer = "timeout"
    /\ statusText \notin {"outOfBounds", "hitWall"}

C23_SuccessFinal ==
    [][ (HaltedOnGoal /\ isRunning /\ ~isRunning') =>
            (overlaySuccess' /\ ~overlayFail')
      ]_vars

(***************************************************************************)
(* C24: in every state from init on, whatever the clicks, the map resets   *)
(* and the run steps, the agent's x and y are in 0 .. 4, its dir is in     *)
(* 0 .. 3 and the cell it stands on is not a wall.                         *)
(***************************************************************************)
C24_AgentWellFormed ==
    /\ agentState.x \in Coords
    /\ agentState.y \in Coords
    /\ agentState.dir \in 0 .. 3
    /\ grid[agentState.y][agentState.x] # "wall"

\* A Forward has just been refused by the wall in front of the agent, which
\* has turned since the run started; the end check is still pending.
C24_Witness ==
    /\ statusText = "hitWall"
    /\ CandidateIs("wall")
    /\ isRunning
    /\ agentState.dir # 1

(***************************************************************************)
(* C25: on every map of the path-first generator the solution path starts  *)
(* on the start cell and ends on the goal cell, each of its cells is next  *)
(* to the one before it in a row or a column, no cell occurs twice and     *)
(* findCorners finds at most one corner in it; the map has at most one     *)
(* blue cell; and when the goal is at Manhattan distance 6 or more from    *)
(* the start the map has exactly one blue cell, on the path's bend, which  *)
(* is (goal.x, 0) or (0, goal.y).                                          *)
(***************************************************************************)
C25_SingleBend ==
    /\ Len(solutionPath) >= 1
    /\ solutionPath[1] = startPos
    /\ solutionPath[Len(solutionPath)] = goalPos
    /\ \A i \in 1 .. (Len(solutionPath) - 1) :
          Manhattan(solutionPath[i], solutionPath[i + 1]) = 1
    /\ \A i, j \in 1 .. Len(solutionPath) :
          i # j => solutionPath[i] # solutionPath[j]
    /\ Len(findCorners(solutionPath)) <= 1
    /\ Cardinality(CellsOf("blue")) <= 1
    /\ Manhattan(startPos, goalPos) >= 6 =>
          /\ Cardinality(CellsOf("blue")) = 1
          /\ CellsOf("blue") = CornerSet
          /\ \/ CellsOf("blue") = { [x |-> goalPos.x, y |-> 0] }
             \/ CellsOf("blue") = { [x |-> 0, y |-> goalPos.y] }

\* A map whose goal is far enough for a bend, with the vertical leg first
\* and the blue cell on the bend.
C25_Witness ==
    /\ Manhattan(startPos, goalPos) >= 6
    /\ CellsOf("blue") = { [x |-> 0, y |-> goalPos.y] }
    /\ Len(solutionPath) = goalPos.x + goalPos.y + 1
    /\ statusText = "ready"

====
